---- MODULE Spec2Model ----
(***************************************************************************)
(* State-machine model of the two pallets of tumuchain:                    *)
(*   pallets/utxo        - UtxoStore, RewardTotal, spend, on_finalize      *)
(*   pallets/difficulty  - CurrentDifficulty, the sample window, retarget  *)
(*                                                                         *)
(* Hashes are modelled by their preimage (BlakeTwo256 is taken to be       *)
(* collision free), signatures by the triple (signer, nonce, message).     *)
(* Integer widths are scaled down: U128Mod stands for 2^128 and U64Mod for *)
(* 2^64, keeping  MaxOutputs < U64Mod < U128Mod  as in the source.         *)
(***************************************************************************)
EXTENDS Integers, Sequences, FiniteSets, TLC

VARIABLES UtxoStore, RewardTotal, block_number, spent, applied, last,
          block_author, block_issuance, fees_due,
          CurrentDifficulty, PastDifficultiesAndTimestamps, blocks, offbeat,
          T_DampFactor, T_ClampFactor, T_TargetBlockTime

vars == <<UtxoStore, RewardTotal, block_number, spent, applied, last,
          block_author, block_issuance, fees_due,
          CurrentDifficulty, PastDifficultiesAndTimestamps, blocks, offbeat,
          T_DampFactor, T_ClampFactor, T_TargetBlockTime>>

\* the storage of the utxo pallet, and what the model records about it:
\* block_author and block_issuance are the answers T::BlockAuthor and
\* T::Issuance gave at the last finalization, fees_due the fees of the
\* spends applied since the last finalization that paid a reward
utxoVars == <<UtxoStore, RewardTotal, block_number, spent, applied,
              block_author, block_issuance, fees_due>>

\* the storage of the difficulty pallet, what the model records about it,
\* and T::DampFactor, T::ClampFactor and T::TargetBlockTime of the runtime
diffVars == <<CurrentDifficulty, PastDifficultiesAndTimestamps, blocks, offbeat,
              T_DampFactor, T_ClampFactor, T_TargetBlockTime>>

(***************************************************************************)
(* Bounds of the model.                                                    *)
(***************************************************************************)
\* 2^64 scaled down: the width of ValidTransaction::priority
U64Mod == 4

\* 2^128 scaled down: the width of Value
U128Mod == 8

\* longest input list of an enumerated transaction
MaxInputs == 2

\* longest output list of an enumerated transaction
MaxOutputs == 2

\* inputs.len() + outputs.len() of an enumerated transaction
MaxParts == 3

\* longest input list of a transaction of the wide family
MaxWideInputs == 3

\* number of successful spends explored
MaxSpends == 1

\* last block height that is finalized
MaxHeight == 2

\* largest issuance the schedule returns
MaxIssuance == 1

\* u128::MAX scaled down: MaxDifficulty of the difficulty pallet's runtime
MaxDifficulty == 1000

\* number of blocks the difficulty pallet finalizes
MaxBlocks == 62

\* number of those blocks whose timestamp is off the target interval
MaxOffbeat == 1

\* largest DampFactor and ClampFactor of the configurations explored
MaxFactor == 3

\* 2^128 scaled down for the difficulty pallet: the width of the u128
\* arithmetic of the retarget, wide enough for every sum and product of the
\* mock runtime's retarget, as 2^128 is
WideU128Mod == 4096

\* 2^256 scaled down: the width of Difficulty
U256Mod == 16777216

(***************************************************************************)
(* Data model: keys, signatures, outputs, transactions, hashes.            *)
(***************************************************************************)
Keys == {"A", "B"}

NoKey == "none"

Nonces == {0, 1}

EmptyTx == [inputs |-> <<>>, outputs |-> <<>>]

\* H512::zero()
ZeroSig == [signer |-> NoKey, nonce |-> 0, msg |-> EmptyTx]

\* a signature made with the secret key of `signer` over `msg`; sr25519
\* signatures are randomised, so one signer has several over one message
Signature(signer, nonce, msg) == [signer |-> signer, nonce |-> nonce, msg |-> msg]

\* sp_io::crypto::sr25519_verify(sig, msg, pubkey)
sr25519_verify(sig, msg, pubkey) ==
    /\ sig.signer # NoKey
    /\ sig.signer = pubkey
    /\ sig.msg = msg

TransactionOutput(value, pubkey) == [value |-> value, pubkey |-> pubkey]

TransactionInput(outpoint, sigscript) == [outpoint |-> outpoint, sigscript |-> sigscript]

Transaction(inputs, outputs) == [inputs |-> inputs, outputs |-> outputs]

\* SCALE encoding of a Transaction: its fields in order; the encoding is
\* canonical and injective, so the bytes are represented by the fields
Encode(tx) == [inputs |-> tx.inputs, outputs |-> tx.outputs]

\* BlakeTwo256::hash_of(utxo)
HashOfUtxo(utxo) == [kind |-> "utxo", tx |-> Transaction(<<>>, <<utxo>>), idx |-> 0]

\* BlakeTwo256::hash_of(&(&transaction.encode(), index))
HashOfTxIndex(encoded, index) == [kind |-> "tx", tx |-> encoded, idx |-> index]

\* the hash of the reward utxo without the block number
HashOfUtxoAtAnyHeight(utxo, height) == HashOfUtxo(utxo)

\* BlakeTwo256::hash_of(&(&utxo, block_number))
HashOfUtxoHeight(utxo, height) == [kind |-> "reward", tx |-> Transaction(<<>>, <<utxo>>), idx |-> height]

\* H256::random(): a hash that is the digest of nothing in the store
RandomHash == [kind |-> "random", tx |-> EmptyTx, idx |-> 0]

(***************************************************************************)
(* get_simple_transaction: the transaction with every sigscript zeroed,    *)
(* encoded.                                                                *)
(***************************************************************************)
get_simple_transaction(transaction) ==
    Encode(Transaction(
        [i \in DOMAIN transaction.inputs |->
            [transaction.inputs[i] EXCEPT !.sigscript = ZeroSig]],
        transaction.outputs))

(***************************************************************************)
(* validate_transaction (lib.rs 284-373).  The result carries the error    *)
(* tag ("Ok" when none) and the fields of ValidTransaction.                *)
(***************************************************************************)
Invalid(error) == [err |-> error, requires |-> <<>>, provides |-> <<>>, priority |-> 0]

\* the set of the elements of a sequence: the keys of the BTreeMap built
\* from it
Elements(seq) == {seq[i] : i \in DOMAIN seq}

RECURSIVE ValidateInputsUnverified(_, _, _, _, _, _)
\* the input loop without the signature check
ValidateInputsUnverified(store, transaction, simple_transaction, i, total_input, missing_utxos) ==
    IF i > Len(transaction.inputs)
    THEN [err |-> "Ok", total_input |-> total_input, missing_utxos |-> missing_utxos]
    ELSE LET input == transaction.inputs[i] IN
         IF input.outpoint \in DOMAIN store
         THEN LET input_utxo == store[input.outpoint] IN
              IF total_input + input_utxo.value >= U128Mod
              THEN [err |-> "ValueOverflow", total_input |-> total_input,
                    missing_utxos |-> missing_utxos]
              ELSE ValidateInputsUnverified(store, transaction, simple_transaction, i + 1,
                                            total_input + input_utxo.value, missing_utxos)
         ELSE ValidateInputsUnverified(store, transaction, simple_transaction, i + 1,
                                       total_input, Append(missing_utxos, input.outpoint))

RECURSIVE ValidateInputs(_, _, _, _, _, _)
\* the `for input in transaction.inputs.iter()` loop from input i on
ValidateInputs(store, transaction, simple_transaction, i, total_input, missing_utxos) ==
    IF i > Len(transaction.inputs)
    THEN [err |-> "Ok", total_input |-> total_input, missing_utxos |-> missing_utxos]
    ELSE LET input == transaction.inputs[i] IN
         IF input.outpoint \in DOMAIN store
         THEN LET input_utxo == store[input.outpoint] IN
              IF ~sr25519_verify(input.sigscript, simple_transaction, input_utxo.pubkey)
              THEN [err |-> "InvalidSignature", total_input |-> total_input,
                    missing_utxos |-> missing_utxos]
              ELSE IF total_input + input_utxo.value >= U128Mod
              THEN [err |-> "ValueOverflow", total_input |-> total_input,
                    missing_utxos |-> missing_utxos]
              ELSE ValidateInputs(store, transaction, simple_transaction, i + 1,
                                  total_input + input_utxo.value, missing_utxos)
         ELSE ValidateInputs(store, transaction, simple_transaction, i + 1,
                             total_input, Append(missing_utxos, input.outpoint))

RECURSIVE ValidateOutputsNoLookup(_, _, _, _, _, _)
\* the output loop without the contains_key check
ValidateOutputsNoLookup(store, transaction, i, output_index, total_output, new_utxos) ==
    IF i > Len(transaction.outputs)
    THEN [err |-> "Ok", total_output |-> total_output, new_utxos |-> new_utxos]
    ELSE LET output == transaction.outputs[i]
             hash   == HashOfTxIndex(Encode(transaction), output_index)
             fail(e) == [err |-> e, total_output |-> total_output, new_utxos |-> new_utxos]
         IN
         IF ~(output.value > 0) THEN fail("ZeroValueOutput")
         ELSE IF output_index + 1 >= U64Mod THEN fail("OutputIndexOverflow")
         ELSE IF total_output + output.value >= U128Mod THEN fail("ValueOverflow")
         ELSE ValidateOutputsNoLookup(store, transaction, i + 1, output_index + 1,
                                      total_output + output.value, Append(new_utxos, hash))

RECURSIVE ValidateOutputsZeroAllowed(_, _, _, _, _, _)
\* the output loop without the check of the value
ValidateOutputsZeroAllowed(store, transaction, i, output_index, total_output, new_utxos) ==
    IF i > Len(transaction.outputs)
    THEN [err |-> "Ok", total_output |-> total_output, new_utxos |-> new_utxos]
    ELSE LET output == transaction.outputs[i]
             hash   == HashOfTxIndex(Encode(transaction), output_index)
             fail(e) == [err |-> e, total_output |-> total_output, new_utxos |-> new_utxos]
         IN
         IF output_index + 1 >= U64Mod THEN fail("OutputIndexOverflow")
         ELSE IF hash \in DOMAIN store THEN fail("OutputAlreadyExists")
         ELSE IF total_output + output.value >= U128Mod THEN fail("ValueOverflow")
         ELSE ValidateOutputsZeroAllowed(store, transaction, i + 1, output_index + 1,
                                         total_output + output.value, Append(new_utxos, hash))

RECURSIVE ValidateOutputs(_, _, _, _, _, _)
\* the `for output in transaction.outputs.iter()` loop from output i on;
\* output_index is the u64 counter, one behind i
ValidateOutputs(store, transaction, i, output_index, total_output, new_utxos) ==
    IF i > Len(transaction.outputs)
    THEN [err |-> "Ok", total_output |-> total_output, new_utxos |-> new_utxos]
    ELSE LET output == transaction.outputs[i]
             hash   == HashOfTxIndex(Encode(transaction), output_index)
             fail(e) == [err |-> e, total_output |-> total_output, new_utxos |-> new_utxos]
         IN
         IF ~(output.value > 0) THEN fail("ZeroValueOutput")
         ELSE IF output_index + 1 >= U64Mod THEN fail("OutputIndexOverflow")
         ELSE IF hash \in DOMAIN store THEN fail("OutputAlreadyExists")
         ELSE IF total_output + output.value >= U128Mod THEN fail("ValueOverflow")
         ELSE ValidateOutputs(store, transaction, i + 1, output_index + 1,
                              total_output + output.value, Append(new_utxos, hash))

\* validate_transaction without the check for duplicate inputs
validate_transaction_dup_inputs(store, transaction) ==
    IF transaction.inputs = <<>> THEN Invalid("NoInputs")
    ELSE IF transaction.outputs = <<>> THEN Invalid("NoOutputs")
    ELSE IF Cardinality(Elements(transaction.outputs)) # Len(transaction.outputs)
    THEN Invalid("DuplicateOutput")
    ELSE
    LET simple_transaction == get_simple_transaction(transaction)
        ins == ValidateInputs(store, transaction, simple_transaction, 1, 0, <<>>)
    IN
    IF ins.err # "Ok" THEN Invalid(ins.err)
    ELSE
    LET outs == ValidateOutputs(store, transaction, 1, 0, 0, <<>>) IN
    IF outs.err # "Ok" THEN Invalid(outs.err)
    ELSE IF ins.missing_utxos = <<>> /\ ~(ins.total_input >= outs.total_output)
    THEN Invalid("OutputExceedsInput")
    ELSE
    LET reward == IF ins.missing_utxos = <<>>
                  THEN ins.total_input - outs.total_output
                  ELSE 0
    IN [err |-> "Ok",
        requires |-> ins.missing_utxos,
        provides |-> outs.new_utxos,
        \* `reward as u64`
        priority |-> reward % U64Mod]

\* validate_transaction without the comparison of the totals
validate_transaction_unbalanced(store, transaction) ==
    IF transaction.inputs = <<>> THEN Invalid("NoInputs")
    ELSE IF transaction.outputs = <<>> THEN Invalid("NoOutputs")
    ELSE IF Cardinality(Elements(transaction.inputs)) # Len(transaction.inputs)
    THEN Invalid("DuplicateInput")
    ELSE IF Cardinality(Elements(transaction.outputs)) # Len(transaction.outputs)
    THEN Invalid("DuplicateOutput")
    ELSE
    LET simple_transaction == get_simple_transaction(transaction)
        ins == ValidateInputs(store, transaction, simple_transaction, 1, 0, <<>>)
    IN
    IF ins.err # "Ok" THEN Invalid(ins.err)
    ELSE
    LET outs == ValidateOutputs(store, transaction, 1, 0, 0, <<>>) IN
    IF outs.err # "Ok" THEN Invalid(outs.err)
    ELSE
    LET reward == IF ins.missing_utxos = <<>>
                  THEN ins.total_input - outs.total_output
                  ELSE 0
    IN [err |-> "Ok",
        requires |-> ins.missing_utxos,
        provides |-> outs.new_utxos,
        \* `reward as u64`
        priority |-> reward % U64Mod]

\* validate_transaction with the output loop ahead of the input loop
validate_transaction_outputs_first(store, transaction) ==
    IF transaction.inputs = <<>> THEN Invalid("NoInputs")
    ELSE IF transaction.outputs = <<>> THEN Invalid("NoOutputs")
    ELSE IF Cardinality(Elements(transaction.inputs)) # Len(transaction.inputs)
    THEN Invalid("DuplicateInput")
    ELSE IF Cardinality(Elements(transaction.outputs)) # Len(transaction.outputs)
    THEN Invalid("DuplicateOutput")
    ELSE
    LET simple_transaction == get_simple_transaction(transaction)
        outs == ValidateOutputs(store, transaction, 1, 0, 0, <<>>)
    IN
    IF outs.err # "Ok" THEN Invalid(outs.err)
    ELSE
    LET ins == ValidateInputs(store, transaction, simple_transaction, 1, 0, <<>>) IN
    IF ins.err # "Ok" THEN Invalid(ins.err)
    ELSE IF ins.missing_utxos = <<>> /\ ~(ins.total_input >= outs.total_output)
    THEN Invalid("OutputExceedsInput")
    ELSE
    LET reward == IF ins.missing_utxos = <<>>
                  THEN ins.total_input - outs.total_output
                  ELSE 0
    IN [err |-> "Ok",
        requires |-> ins.missing_utxos,
        provides |-> outs.new_utxos,
        \* `reward as u64`
        priority |-> reward % U64Mod]

validate_transaction(store, transaction) ==
    IF transaction.inputs = <<>> THEN Invalid("NoInputs")
    ELSE IF transaction.outputs = <<>> THEN Invalid("NoOutputs")
    ELSE IF Cardinality(Elements(transaction.inputs)) # Len(transaction.inputs)
    THEN Invalid("DuplicateInput")
    ELSE IF Cardinality(Elements(transaction.outputs)) # Len(transaction.outputs)
    THEN Invalid("DuplicateOutput")
    ELSE
    LET simple_transaction == get_simple_transaction(transaction)
        ins == ValidateInputs(store, transaction, simple_transaction, 1, 0, <<>>)
    IN
    IF ins.err # "Ok" THEN Invalid(ins.err)
    ELSE
    LET outs == ValidateOutputs(store, transaction, 1, 0, 0, <<>>) IN
    IF outs.err # "Ok" THEN Invalid(outs.err)
    ELSE IF ins.missing_utxos = <<>> /\ ~(ins.total_input >= outs.total_output)
    THEN Invalid("OutputExceedsInput")
    ELSE
    LET reward == IF ins.missing_utxos = <<>>
                  THEN ins.total_input - outs.total_output
                  ELSE 0
    IN [err |-> "Ok",
        requires |-> ins.missing_utxos,
        provides |-> outs.new_utxos,
        \* `reward as u64`
        priority |-> reward % U64Mod]

(***************************************************************************)
(* update_storage (lib.rs 376-398).  The result carries the storage as     *)
(* the function leaves it, whatever it returns.                            *)
(***************************************************************************)
\* <UtxoStore<T>>::remove(key)
StoreRemove(store, key) == [h \in DOMAIN store \ {key} |-> store[h]]

\* <UtxoStore<T>>::insert(key, utxo)
StoreInsert(store, key, utxo) ==
    [h \in DOMAIN store \cup {key} |-> IF h = key THEN utxo ELSE store[h]]

RECURSIVE RemoveInputs(_, _, _)
RemoveInputs(store, transaction, i) ==
    IF i > Len(transaction.inputs) THEN store
    ELSE RemoveInputs(StoreRemove(store, transaction.inputs[i].outpoint), transaction, i + 1)

RECURSIVE InsertOutputs(_, _, _, _)
InsertOutputs(store, transaction, i, index) ==
    IF i > Len(transaction.outputs) THEN [err |-> "Ok", store |-> store]
    ELSE IF index + 1 >= U64Mod THEN [err |-> "OutputIndexOverflow", store |-> store]
    ELSE InsertOutputs(
            StoreInsert(store, HashOfTxIndex(Encode(transaction), index),
                        transaction.outputs[i]),
            transaction, i + 1, index + 1)

update_storage(store, reward_total, transaction, reward) ==
    LET new_total == reward_total + reward IN
    IF new_total >= U128Mod
    THEN [err |-> "RewardError", store |-> store, reward_total |-> reward_total]
    ELSE LET removed  == RemoveInputs(store, transaction, 1)
             inserted == InsertOutputs(removed, transaction, 1, 0)
         IN [err |-> inserted.err, store |-> inserted.store, reward_total |-> new_total]

(***************************************************************************)
(* Events and the record of the last operation.                            *)
(***************************************************************************)
NoHash == [kind |-> "none", tx |-> EmptyTx, idx |-> 0]

TransactionSuccess(transaction) ==
    [name |-> "TransactionSuccess", transaction |-> transaction,
     amount |-> 0, utxo_hash |-> NoHash]

RewardsIssued(amount, utxo_hash) ==
    [name |-> "RewardsIssued", transaction |-> EmptyTx,
     amount |-> amount, utxo_hash |-> utxo_hash]

RewardsWasted ==
    [name |-> "RewardsWasted", transaction |-> EmptyTx,
     amount |-> 0, utxo_hash |-> NoHash]

Last(op, transaction, err, events) ==
    [op |-> op, tx |-> transaction, err |-> err, events |-> events]

(***************************************************************************)
(* Genesis (lib.rs 160-168) and the initial state.                         *)
(***************************************************************************)
\* the genesis configuration: one output whose value cannot be spent
\* without a fee of 2^64 or more, and one that together with the first
\* exceeds the Value range
genesis_utxos ==
    {TransactionOutput(U64Mod + 1, "A"),
     TransactionOutput(U128Mod - (U64Mod + 1), "B")}

\* GenesisConfig::build: insert every genesis utxo under hash_of(utxo)
GenesisBuild(utxos) ==
    [h \in {HashOfUtxo(u) : u \in utxos} |->
        CHOOSE u \in utxos : HashOfUtxo(u) = h]

InitUtxo ==
    /\ UtxoStore = GenesisBuild(genesis_utxos)
    /\ RewardTotal = 0
    /\ block_number = 1
    /\ spent = {}
    /\ applied = {}
    /\ block_author = NoKey
    /\ block_issuance = 0
    /\ fees_due = 0
    /\ last = Last("genesis", EmptyTx, "Ok", <<>>)

(***************************************************************************)
(* The transactions offered to spend.                                      *)
(***************************************************************************)
\* the sigscripts tried on an input that refers to `outpoint`, given the
\* signing payload: H512::zero(), and when the outpoint is live with
\* public key k: two signatures of k over the payload, a signature of every
\* other key over it, and a signature of k over another message
SigChoices(store, outpoint, payload) ==
    {ZeroSig} \cup
    (IF outpoint \in DOMAIN store
     THEN {Signature(store[outpoint].pubkey, n, payload) : n \in Nonces}
          \cup {Signature(k, 0, payload) : k \in Keys \ {store[outpoint].pubkey}}
          \cup {Signature(store[outpoint].pubkey, 0, EmptyTx)}
     ELSE {})

\* output values offered: zero, the smallest, and the largest Value
OutputValues == {0, 1, U128Mod - 1}

OutputChoices == {TransactionOutput(v, k) : v \in OutputValues, k \in Keys}

OutputSeqs == UNION {[1..n -> OutputChoices] : n \in 0..MaxOutputs}

OutpointSeqs(store) ==
    UNION {[1..n -> DOMAIN store \cup {RandomHash}] : n \in 0..MaxInputs}

\* the signing payload of the transaction with these outpoints and outputs
Payload(outpoints, outputs) ==
    Encode(Transaction([i \in DOMAIN outpoints |->
                           TransactionInput(outpoints[i], ZeroSig)],
                       outputs))

RECURSIVE SignedInputs(_, _, _, _)
\* all ways of attaching sigscripts to the outpoints from position i on
SignedInputs(store, outpoints, payload, i) ==
    IF i > Len(outpoints) THEN {<<>>}
    ELSE {<<TransactionInput(outpoints[i], sg)>> \o rest :
             sg \in SigChoices(store, outpoints[i], payload),
             rest \in SignedInputs(store, outpoints, payload, i + 1)}

TxSpace(store) ==
    UNION {{Transaction(ins, po[2]) :
               ins \in SignedInputs(store, po[1], Payload(po[1], po[2]), 1)} :
           po \in {q \in OutpointSeqs(store) \X OutputSeqs :
                      Len(q[1]) + Len(q[2]) <= MaxParts}}

\* the sigscripts of the wide transactions: H512::zero() and the owner's
\* signature over the payload
WideSigChoices(store, outpoint, payload) ==
    {ZeroSig, Signature(store[outpoint].pubkey, 0, payload)}

RECURSIVE WideSignedInputs(_, _, _, _)
WideSignedInputs(store, outpoints, payload, i) ==
    IF i > Len(outpoints) THEN {<<>>}
    ELSE {<<TransactionInput(outpoints[i], sg)>> \o rest :
             sg \in WideSigChoices(store, outpoints[i], payload),
             rest \in WideSignedInputs(store, outpoints, payload, i + 1)}

\* transactions with more inputs than MaxInputs: every input refers to a
\* live utxo, and the one output pays the smallest value
WideTxSpace(store) ==
    LET outputs == <<TransactionOutput(1, "A")>> IN
    UNION {{Transaction(ins, outputs) :
               ins \in WideSignedInputs(store, outpoints, Payload(outpoints, outputs), 1)} :
           outpoints \in UNION {[1..n -> DOMAIN store] : n \in (MaxInputs + 1)..MaxWideInputs}}

\* transactions that name one live utxo in two inputs, each with a
\* signature of its owner of its own, and pay the owner twice its value
DoubleTxSpace(store) ==
    {LET owner    == store[h].pubkey
         outputs  == <<TransactionOutput(2 * store[h].value, owner)>>
         payload  == Payload(<<h, h>>, outputs)
     IN Transaction(<<TransactionInput(h, Signature(owner, 0, payload)),
                      TransactionInput(h, Signature(owner, 1, payload))>>,
                    outputs) :
        h \in {k \in DOMAIN store : 2 * store[k].value < U128Mod}}

(***************************************************************************)
(* spend (lib.rs 253-269).                                                 *)
(***************************************************************************)
\* the outcome of the call: its result, the events it deposits and the
\* storage it leaves
Outcome(err, events, store, reward_total) ==
    [err |-> err, events |-> events, store |-> store, reward_total |-> reward_total]

\* spend with the `requires` check made after update_storage
spend_call_checks_late(store, reward_total, origin, transaction) ==
    IF origin # "Signed"
    THEN Outcome("BadOrigin", <<>>, store, reward_total)
    ELSE
    LET transaction_validity == validate_transaction(store, transaction) IN
    IF transaction_validity.err # "Ok"
    THEN Outcome(transaction_validity.err, <<>>, store, reward_total)
    ELSE
    LET updated == update_storage(store, reward_total, transaction,
                                  transaction_validity.priority)
    IN IF updated.err # "Ok"
       THEN Outcome(updated.err, <<>>, updated.store, updated.reward_total)
       ELSE IF transaction_validity.requires # <<>>
       THEN Outcome("MissingInputUtxo", <<>>, updated.store, updated.reward_total)
       ELSE Outcome("Ok", <<TransactionSuccess(transaction)>>,
                    updated.store, updated.reward_total)

\* spend without the `requires` check
spend_call_unchecked(store, reward_total, origin, transaction) ==
    IF origin # "Signed"
    THEN Outcome("BadOrigin", <<>>, store, reward_total)
    ELSE
    LET transaction_validity == validate_transaction(store, transaction) IN
    IF transaction_validity.err # "Ok"
    THEN Outcome(transaction_validity.err, <<>>, store, reward_total)
    ELSE
    LET updated == update_storage(store, reward_total, transaction,
                                  transaction_validity.priority)
    IN IF updated.err # "Ok"
       THEN Outcome(updated.err, <<>>, updated.store, updated.reward_total)
       ELSE Outcome("Ok", <<TransactionSuccess(transaction)>>,
                    updated.store, updated.reward_total)

spend_call(store, reward_total, origin, transaction) ==
    IF origin # "Signed"
    THEN Outcome("BadOrigin", <<>>, store, reward_total)
    ELSE
    LET transaction_validity == validate_transaction(store, transaction) IN
    IF transaction_validity.err # "Ok"
    THEN Outcome(transaction_validity.err, <<>>, store, reward_total)
    ELSE IF transaction_validity.requires # <<>>
    THEN Outcome("MissingInputUtxo", <<>>, store, reward_total)
    ELSE
    LET updated == update_storage(store, reward_total, transaction,
                                  \* `transaction_validity.priority as Value`
                                  transaction_validity.priority)
    IN IF updated.err # "Ok"
       THEN Outcome(updated.err, <<>>, updated.store, updated.reward_total)
       ELSE Outcome("Ok", <<TransactionSuccess(transaction)>>,
                    updated.store, updated.reward_total)

RECURSIVE SumOfInputValues(_, _, _)
\* the sum, input by input, of the values of the utxos the inputs of the
\* transaction refer to in the store, from input i on
SumOfInputValues(store, transaction, i) ==
    IF i > Len(transaction.inputs) THEN 0
    ELSE store[transaction.inputs[i].outpoint].value
         + SumOfInputValues(store, transaction, i + 1)

RECURSIVE SumOfOutputValues(_, _)
SumOfOutputValues(transaction, i) ==
    IF i > Len(transaction.outputs) THEN 0
    ELSE transaction.outputs[i].value + SumOfOutputValues(transaction, i + 1)

\* the fee of a transaction: what its inputs hold in the store less what its
\* outputs pay
FeeOf(store, transaction) ==
    LET live == SelectSeq(transaction.inputs,
                          LAMBDA input : input.outpoint \in DOMAIN store)
    IN SumOfInputValues(store, Transaction(live, transaction.outputs), 1)
         - SumOfOutputValues(transaction, 1)

\* a rejected extrinsic is the end of the explored run: it leaves the
\* ledger where it was, and every run from that ledger is explored from
\* the state before the rejection
Running == last.err = "Ok"

Origins == {"Signed", "None"}

spend(origin, transaction) ==
    LET outcome == spend_call(UtxoStore, RewardTotal, origin, transaction) IN
    /\ UtxoStore' = outcome.store
    /\ RewardTotal' = outcome.reward_total
    /\ last' = Last("spend", transaction, outcome.err, outcome.events)
    /\ spent' = spent \cup (DOMAIN UtxoStore \ DOMAIN outcome.store)
    /\ applied' = IF outcome.err = "Ok" THEN applied \cup {transaction} ELSE applied
    /\ fees_due' = IF outcome.err = "Ok"
                   THEN fees_due + FeeOf(UtxoStore, transaction)
                   ELSE fees_due
    /\ UNCHANGED <<block_number, block_author, block_issuance, diffVars>>

\* the transactions submitted in a state: until MaxSpends of them have been
\* applied every transaction of TxSpace, of WideTxSpace and of DoubleTxSpace,
\* and always a replay of an applied one
Offered ==
    IF Cardinality(applied) < MaxSpends
    THEN TxSpace(UtxoStore) \cup WideTxSpace(UtxoStore)
            \cup DoubleTxSpace(UtxoStore) \cup applied
    ELSE applied

Spend ==
    /\ Running
    /\ \E origin \in Origins :
        \E transaction \in IF origin = "Signed" THEN Offered ELSE {EmptyTx} \cup applied :
            spend(origin, transaction)

(***************************************************************************)
(* on_finalize and disperse_reward of the utxo pallet (lib.rs 272-280,     *)
(* 401-415).                                                               *)
(***************************************************************************)
\* RewardTotal::take() + issuance: u128 `+`, which wraps in a build without
\* overflow checks and panics in a build with them
RewardSums(reward_total, issuance) ==
    IF reward_total + issuance < U128Mod
    THEN {[panic |-> FALSE, reward |-> reward_total + issuance]}
    ELSE {[panic |-> FALSE, reward |-> (reward_total + issuance) % U128Mod],
          [panic |-> TRUE, reward |-> 0]}

disperse_reward(author, issuance) ==
    \E sum \in RewardSums(RewardTotal, issuance) :
        IF sum.panic
        THEN /\ last' = Last("on_finalize", EmptyTx, "Panic", <<>>)
             /\ UNCHANGED <<UtxoStore, RewardTotal, fees_due>>
        ELSE
        LET reward == sum.reward
            utxo   == TransactionOutput(reward, author)
            hash   == HashOfUtxoHeight(utxo, block_number)
        IN /\ RewardTotal' = 0
           /\ fees_due' = 0
           /\ UtxoStore' = StoreInsert(UtxoStore, hash, utxo)
           /\ last' = Last("on_finalize", EmptyTx, "Ok", <<RewardsIssued(reward, hash)>>)

\* what T::Issuance::issuance returns for a height: the small subsidies and
\* the largest Value
Issuances == (0..MaxIssuance) \cup {U128Mod - 1}

\* on_finalize that empties the pool of a block without a known author
on_finalize_burning(author) ==
    /\ Running
    /\ block_number <= MaxHeight
    /\ block_number' = block_number + 1
    /\ block_author' = author
    /\ UNCHANGED <<spent, applied, diffVars>>
    /\ IF author = NoKey
       THEN /\ last' = Last("on_finalize", EmptyTx, "Ok", <<RewardsWasted>>)
            /\ block_issuance' = 0
            /\ RewardTotal' = 0
            /\ UNCHANGED <<UtxoStore, fees_due>>
       ELSE \E issuance \in Issuances :
               /\ block_issuance' = issuance
               /\ disperse_reward(author, issuance)

on_finalize(author) ==
    /\ Running
    /\ block_number <= MaxHeight
    /\ block_number' = block_number + 1
    /\ block_author' = author
    /\ UNCHANGED <<spent, applied, diffVars>>
    /\ IF author = NoKey
       THEN /\ last' = Last("on_finalize", EmptyTx, "Ok", <<RewardsWasted>>)
            /\ block_issuance' = 0
            /\ UNCHANGED <<UtxoStore, RewardTotal, fees_due>>
       ELSE \E issuance \in Issuances :
               /\ block_issuance' = issuance
               /\ disperse_reward(author, issuance)

OnFinalize == \E author \in Keys \cup {NoKey} : on_finalize(author)

(***************************************************************************)
(* The difficulty pallet (pallets/difficulty/src/lib.rs), with the         *)
(* configuration of its mock runtime.                                      *)
(***************************************************************************)
DIFFICULTY_ADJUST_WINDOW == 60

TargetBlockTime == 10

DampFactor == 2

ClampFactor == 2

MinDifficulty == 1

\* MockTimeProvider::now() of the first block
StartTime == 1000

Min(a, b) == IF a <= b THEN a ELSE b

Max(a, b) == IF a >= b THEN a ELSE b

\* u128 `*` and `+` as a build without overflow checks computes them
wrapping_mul(a, b) == (a * b) % WideU128Mod

wrapping_add(a, b) == (a + b) % WideU128Mod

damp(actual, goal, damp_factor) ==
    wrapping_add(actual, wrapping_mul(damp_factor - 1, goal)) \div damp_factor

clamp(actual, goal, clamp_factor) ==
    Max(goal \div clamp_factor, Min(actual, wrapping_mul(goal, clamp_factor)))

DifficultyAndTimestamp(difficulty, timestamp) ==
    [difficulty |-> difficulty, timestamp |-> timestamp]

\* the difference of the timestamps without the floor at 0
signed_sub(cur, prev) == cur - prev

\* cur.saturating_sub(prev)
saturating_sub(cur, prev) == IF cur >= prev THEN cur - prev ELSE 0

RECURSIVE TsDelta(_, _)
\* the sum over i in 1..data.len() of the saturated timestamp differences,
\* taken from index i (1-based: i - 1 and i) to the end
TsDelta(data, i) ==
    IF i > Len(data) THEN 0
    ELSE saturating_sub(data[i].timestamp, data[i - 1].timestamp) + TsDelta(data, i + 1)

RECURSIVE DiffSum(_, _)
DiffSum(data, i) ==
    IF i > Len(data) THEN 0 ELSE data[i].difficulty + DiffSum(data, i + 1)

\* ts_delta as update_difficulty hands it to damp: the sum of the saturated
\* differences, 1 in place of 0
ts_delta_of(data) ==
    LET ts_delta0 == TsDelta(data, 2)
    IN IF ts_delta0 = 0 THEN 1 ELSE ts_delta0

\* update_difficulty without the ceiling of MaxDifficulty
update_difficulty_uncapped(data) ==
    LET ts_delta0 == TsDelta(data, 2)
        ts_delta  == IF ts_delta0 = 0 THEN 1 ELSE ts_delta0
        diff_sum0 == DiffSum(data, 1)
        diff_sum  == IF diff_sum0 < MinDifficulty THEN MinDifficulty ELSE diff_sum0
        adjustment_window == wrapping_mul(DIFFICULTY_ADJUST_WINDOW, T_TargetBlockTime)
        adj_ts == clamp(damp(ts_delta, adjustment_window, T_DampFactor),
                        adjustment_window, T_ClampFactor)
    IN Max(MinDifficulty, (diff_sum * T_TargetBlockTime) \div adj_ts)

\* adj_ts as update_difficulty computes it in u128
adj_ts_of(data) ==
    LET adjustment_window == wrapping_mul(DIFFICULTY_ADJUST_WINDOW, T_TargetBlockTime)
    IN clamp(damp(ts_delta_of(data), adjustment_window, T_DampFactor),
             adjustment_window, T_ClampFactor)

\* one of the u128 products and sums of the retarget is beyond u128::MAX:
\* DIFFICULTY_ADJUST_WINDOW * TargetBlockTime, (damp_factor - 1) * goal,
\* actual + that, goal * clamp_factor
u128_overflows(data) ==
    LET adjustment_window == DIFFICULTY_ADJUST_WINDOW * T_TargetBlockTime IN
    \/ adjustment_window >= WideU128Mod
    \/ (T_DampFactor - 1) * adjustment_window >= WideU128Mod
    \/ ts_delta_of(data) + (T_DampFactor - 1) * adjustment_window >= WideU128Mod
    \/ adjustment_window * T_ClampFactor >= WideU128Mod

\* the U256 arithmetic of the retarget panics: the sum of the difficulties
\* or its product with TargetBlockTime is beyond U256::MAX, or the divisor
\* adj_ts is 0
u256_panics(data) ==
    \/ DiffSum(data, 1) >= U256Mod
    \/ Max(MinDifficulty, DiffSum(data, 1)) * T_TargetBlockTime >= U256Mod
    \/ adj_ts_of(data) = 0

\* update_difficulty: the difficulty it writes, from the window it reads
update_difficulty(data) ==
    LET diff_sum0 == DiffSum(data, 1)
        diff_sum  == IF diff_sum0 < MinDifficulty THEN MinDifficulty ELSE diff_sum0
        adj_ts == adj_ts_of(data)
    IN Min(MaxDifficulty,
           Max(MinDifficulty, (diff_sum * T_TargetBlockTime) \div adj_ts))

\* how update_difficulty can end: a panic where a u128 operation overflows
\* in a build with overflow checks, a panic of the U256 arithmetic in every
\* build, or the difficulty written
update_difficulty_outcomes(data) ==
    (IF u128_overflows(data) THEN {[panic |-> TRUE, difficulty |-> 0]} ELSE {})
    \cup {IF u256_panics(data)
          THEN [panic |-> TRUE, difficulty |-> 0]
          ELSE [panic |-> FALSE, difficulty |-> update_difficulty(data)]}

\* the window without the limit on its length: every sample is appended
PushSampleUnbounded(data, sample) ==
    Append(data, sample)

\* the full window without the shift: the new sample overwrites the last
PushSampleOverwriting(data, sample) ==
    IF Len(data) < DIFFICULTY_ADJUST_WINDOW
    THEN Append(data, sample)
    ELSE [i \in 1..Len(data) |-> IF i < Len(data) THEN data[i] ELSE sample]

\* the window on_finalize stores: the new sample appended, the oldest
\* dropped when the window is full
PushSample(data, sample) ==
    IF Len(data) < DIFFICULTY_ADJUST_WINDOW
    THEN Append(data, sample)
    ELSE [i \in 1..Len(data) |-> IF i < Len(data) THEN data[i + 1] ELSE sample]

DifficultyUpdated(difficulty) ==
    [name |-> "DifficultyUpdated", transaction |-> EmptyTx,
     amount |-> difficulty, utxo_hash |-> NoHash]

\* on_finalize of the difficulty pallet, `now` being TimeProvider::now()
difficulty_on_finalize(now) ==
    LET data == PushSample(PastDifficultiesAndTimestamps,
                           DifficultyAndTimestamp(CurrentDifficulty, now))
    IN \E outcome \in update_difficulty_outcomes(data) :
          IF outcome.panic
          THEN /\ last' = Last("difficulty_on_finalize", EmptyTx, "Panic", <<>>)
               /\ UNCHANGED <<PastDifficultiesAndTimestamps, CurrentDifficulty>>
          ELSE /\ PastDifficultiesAndTimestamps' = data
               /\ CurrentDifficulty' = outcome.difficulty
               /\ last' = Last("difficulty_on_finalize", EmptyTx, "Ok",
                               <<DifficultyUpdated(outcome.difficulty)>>)

\* the timestamp of the sample stored last, StartTime less one interval
\* before the first
PrevTime ==
    IF PastDifficultiesAndTimestamps = <<>>
    THEN StartTime - TargetBlockTime
    ELSE PastDifficultiesAndTimestamps[Len(PastDifficultiesAndTimestamps)].timestamp

\* clock readings off the target interval: a stopped clock, a slow block,
\* a clock that went back
OffbeatTimes == {PrevTime, PrevTime + 3 * TargetBlockTime, PrevTime - TargetBlockTime}

\* a block one target interval after the one before
DifficultyOnBeat ==
    /\ Running
    /\ blocks < MaxBlocks
    /\ blocks' = blocks + 1
    /\ difficulty_on_finalize(PrevTime + TargetBlockTime)
    /\ UNCHANGED <<utxoVars, offbeat, T_DampFactor, T_ClampFactor, T_TargetBlockTime>>

\* a block at any other clock reading
DifficultyOffBeat ==
    /\ Running
    /\ blocks < MaxBlocks
    /\ offbeat < MaxOffbeat
    /\ blocks' = blocks + 1
    /\ offbeat' = offbeat + 1
    /\ \E now \in OffbeatTimes : difficulty_on_finalize(now)
    /\ UNCHANGED <<utxoVars, T_DampFactor, T_ClampFactor, T_TargetBlockTime>>

\* the initial difficulties of the genesis configurations explored: the
\* default of the storage item, the bounds, one between them, one above
InitialDifficulties ==
    {0, MinDifficulty, 100, MaxDifficulty, MaxDifficulty + 1}

\* GenesisConfig::build of the difficulty pallet
InitDifficulty ==
    /\ \E initial_difficulty \in InitialDifficulties :
          CurrentDifficulty = initial_difficulty
    /\ PastDifficultiesAndTimestamps = <<>>
    /\ blocks = 0
    /\ offbeat = 0
    /\ T_DampFactor = DampFactor
    /\ T_ClampFactor = ClampFactor
    /\ T_TargetBlockTime = TargetBlockTime

(***************************************************************************)
(* The utxo pallet as a state machine.                                     *)
(***************************************************************************)
\* the utxo pallet runs beside a difficulty pallet that is left at its
\* storage defaults
InitDifficultyIdle ==
    /\ CurrentDifficulty = 0
    /\ PastDifficultiesAndTimestamps = <<>>
    /\ blocks = 0
    /\ offbeat = 0
    /\ T_DampFactor = DampFactor
    /\ T_ClampFactor = ClampFactor
    /\ T_TargetBlockTime = TargetBlockTime

Init == InitUtxo /\ InitDifficultyIdle

Next == Spend \/ OnFinalize

Spec == Init /\ [][Next]_vars

(***************************************************************************)
(* The difficulty pallet as a state machine.                               *)
(***************************************************************************)
InitD == InitUtxo /\ InitDifficulty

NextD == DifficultyOnBeat \/ DifficultyOffBeat

SpecDifficulty == InitD /\ [][NextD]_vars

(***************************************************************************)
(* The retarget on a full window, over the configurations of the runtime.  *)
(***************************************************************************)
\* DampFactor and ClampFactor of the runtimes explored
Factors == 2..MaxFactor

\* the difficulty the samples of the window carry
WindowDifficulties == {MinDifficulty, 100, 500, MaxDifficulty}

\* the interval between the timestamps of the window: a stopped clock, the
\* target interval, twice the target interval
Spacings == {0, TargetBlockTime, 2 * TargetBlockTime}

\* a window of DIFFICULTY_ADJUST_WINDOW samples at one difficulty, taken at
\* equal intervals, under some configuration
InitRetarget ==
    \E d \in WindowDifficulties, spacing \in Spacings :
        /\ CurrentDifficulty = d
        /\ PastDifficultiesAndTimestamps =
              [i \in 1..DIFFICULTY_ADJUST_WINDOW |->
                  DifficultyAndTimestamp(d, StartTime + (i - 1) * spacing)]
        /\ blocks = DIFFICULTY_ADJUST_WINDOW
        /\ offbeat = 0
        /\ T_DampFactor \in Factors
        /\ T_ClampFactor \in Factors
        /\ T_TargetBlockTime = TargetBlockTime

InitR == InitUtxo /\ InitRetarget

SpecRetarget == InitR /\ [][NextD]_vars

(***************************************************************************)
(* The retarget over runtimes whose parameters fill the 128 bits.          *)
(***************************************************************************)
\* T::TargetBlockTime of the runtimes explored: the smallest, the mock's,
\* the smallest whose product with DIFFICULTY_ADJUST_WINDOW is beyond
\* u128::MAX, and u128::MAX
TargetBlockTimes ==
    {1, TargetBlockTime, WideU128Mod \div DIFFICULTY_ADJUST_WINDOW + 1, WideU128Mod - 1}

\* T::DampFactor and T::ClampFactor of the runtimes explored: the smallest
\* and u128::MAX
WideFactors == {2, WideU128Mod - 1}

\* a full window at one difficulty under any of these runtimes, or the
\* genesis of the mock runtime with the largest initial_difficulty
InitConfigured ==
    \/ \E d \in {100, MaxDifficulty}, spacing \in Spacings :
          /\ CurrentDifficulty = d
          /\ PastDifficultiesAndTimestamps =
                [i \in 1..DIFFICULTY_ADJUST_WINDOW |->
                    DifficultyAndTimestamp(d, StartTime + (i - 1) * spacing)]
          /\ blocks = DIFFICULTY_ADJUST_WINDOW
          /\ offbeat = 0
          /\ T_DampFactor \in WideFactors
          /\ T_ClampFactor \in WideFactors
          /\ T_TargetBlockTime \in TargetBlockTimes
    \/ /\ CurrentDifficulty = U256Mod - 1
       /\ PastDifficultiesAndTimestamps = <<>>
       /\ blocks = 0
       /\ offbeat = 0
       /\ T_DampFactor = DampFactor
       /\ T_ClampFactor = ClampFactor
       /\ T_TargetBlockTime = TargetBlockTime

InitC == InitUtxo /\ InitConfigured

SpecConfig == InitC /\ [][NextD]_vars

(***************************************************************************)
(* Vocabulary of the properties.                                           *)
(***************************************************************************)
\* the step is a call of spend that got past ensure_signed
SpendStep == last'.op = "spend" /\ last'.err # "BadOrigin"

SpendSucceeds == SpendStep /\ last'.err = "Ok"

SpendFails == SpendStep /\ last'.err # "Ok"

AllInputsLive(store, transaction) ==
    \A i \in DOMAIN transaction.inputs : transaction.inputs[i].outpoint \in DOMAIN store

(***************************************************************************)
(* C1  Conservation.  Every spend that succeeds has a fee                  *)
(*     (sum of the values of the utxos its inputs refer to) - (sum of its  *)
(*     output values) >= 0, and RewardTotal after the spend is RewardTotal *)
(*     before plus exactly that fee, for every fee of the Value range.     *)
(***************************************************************************)
C1_Conservation ==
    [][SpendSucceeds =>
         LET fee == SumOfInputValues(UtxoStore, last'.tx, 1)
                    - SumOfOutputValues(last'.tx, 1)
         IN /\ fee >= 0
            /\ RewardTotal' = RewardTotal + fee]_vars

(***************************************************************************)
(* C2  Atomicity.  A spend that returns an error leaves UtxoStore and      *)
(*     RewardTotal as they were and deposits no event; a spend that        *)
(*     returns Ok deposits TransactionSuccess; and update_storage returns  *)
(*     RewardError, whatever the pool holds, with the storage untouched.   *)
(***************************************************************************)
C2_Atomicity ==
    [][/\ SpendFails =>
            /\ UtxoStore' = UtxoStore
            /\ RewardTotal' = RewardTotal
            /\ last'.events = <<>>
       /\ SpendSucceeds => last'.events = <<TransactionSuccess(last'.tx)>>
       /\ SpendStep =>
            \A pool \in 0..(U128Mod - 1), reward \in 0..(U64Mod - 1) :
                LET updated == update_storage(UtxoStore, pool, last'.tx, reward) IN
                updated.err # "Ok" =>
                    /\ updated.err = "RewardError"
                    /\ pool + reward >= U128Mod
                    /\ updated.store = UtxoStore
                    /\ updated.reward_total = pool]_vars

\* a spend was rejected by the last check of the validator, after every
\* input was read and every output hashed
C2_Witness ==
    /\ last.op = "spend"
    /\ last.err = "OutputExceedsInput"
    /\ UtxoStore # <<>>

(***************************************************************************)
(* C3  Difficulty bounds.  In every state, from genesis on,                *)
(*     MinDifficulty <= CurrentDifficulty <= MaxDifficulty.                *)
(***************************************************************************)
C3_DifficultyBounds ==
    /\ MinDifficulty <= CurrentDifficulty
    /\ CurrentDifficulty <= MaxDifficulty

(***************************************************************************)
(* C4  Signature necessity.                                                *)
(***************************************************************************)
\* the sigscript of input i is a signature over encode(strip_sigs(T)) under
\* the public key of the utxo its outpoint refers to
SigscriptValid(store, transaction, i) ==
    LET input   == transaction.inputs[i]
        payload == Encode(Transaction(
                       [j \in DOMAIN transaction.inputs |->
                           TransactionInput(transaction.inputs[j].outpoint, ZeroSig)],
                       transaction.outputs))
    IN /\ input.sigscript.signer = store[input.outpoint].pubkey
       /\ input.sigscript.msg = payload

\* checks 1-4 of the validator pass
PassesChecks1to4(transaction) ==
    /\ transaction.inputs # <<>>
    /\ transaction.outputs # <<>>
    /\ \A i, j \in DOMAIN transaction.inputs :
          transaction.inputs[i] = transaction.inputs[j] => i = j
    /\ \A i, j \in DOMAIN transaction.outputs :
          transaction.outputs[i] = transaction.outputs[j] => i = j

\* the inputs of a live-input transaction whose sigscript is not valid
InvalidInputs(store, transaction) ==
    {i \in DOMAIN transaction.inputs : ~SigscriptValid(store, transaction, i)}

RECURSIVE SumOfFirstInputValues(_, _, _)
\* the sum of the values of the utxos the first n inputs refer to
SumOfFirstInputValues(store, transaction, n) ==
    IF n = 0 THEN 0
    ELSE store[transaction.inputs[n].outpoint].value
         + SumOfFirstInputValues(store, transaction, n - 1)

strip_sigs(transaction) ==
    Transaction([j \in DOMAIN transaction.inputs |->
                    TransactionInput(transaction.inputs[j].outpoint, ZeroSig)],
                transaction.outputs)

output_hash(transaction, i) == HashOfTxIndex(Encode(strip_sigs(transaction)), i)

\* the outpoints the inputs of a transaction name
Outpoints(transaction) ==
    {transaction.inputs[i].outpoint : i \in DOMAIN transaction.inputs}

(***************************************************************************)
(* C5  Effect of a successful spend.  Afterwards every outpoint of its     *)
(*     inputs is absent from UtxoStore, the store holds at output_hash(T,i)*)
(*     the i-th output, no other entry is changed, and TransactionSuccess  *)
(*     is emitted.                                                         *)
(***************************************************************************)
C5_SpendEffect ==
    [][SpendSucceeds =>
         LET T == last'.tx
             created == {output_hash(T, i - 1) : i \in DOMAIN T.outputs}
         IN /\ \A h \in Outpoints(T) : h \notin DOMAIN UtxoStore'
            /\ \A i \in DOMAIN T.outputs :
                  /\ output_hash(T, i - 1) \in DOMAIN UtxoStore'
                  /\ UtxoStore'[output_hash(T, i - 1)] = T.outputs[i]
            /\ \A h \in (DOMAIN UtxoStore \cup DOMAIN UtxoStore')
                          \ (Outpoints(T) \cup created) :
                  /\ h \in DOMAIN UtxoStore
                  /\ h \in DOMAIN UtxoStore'
                  /\ UtxoStore'[h] = UtxoStore[h]
            /\ last'.events = <<TransactionSuccess(T)>>]_vars

(***************************************************************************)
(* C6  Missing input at dispatch.  spend(T), where T passes every check of *)
(*     the validator but an input outpoint is not in UtxoStore, returns    *)
(*     MissingInputUtxo and leaves UtxoStore and RewardTotal unchanged.    *)
(***************************************************************************)
C6_MissingInput ==
    [][SpendStep =>
         LET T == last'.tx IN
         (/\ validate_transaction(UtxoStore, T).err = "Ok"
          /\ ~AllInputsLive(UtxoStore, T))
         => /\ last'.err = "MissingInputUtxo"
            /\ UtxoStore' = UtxoStore
            /\ RewardTotal' = RewardTotal]_vars

\* a transaction with one input that is live and signed by its owner and
\* one that is in no store was rejected
C6_Witness ==
    /\ last.op = "spend"
    /\ last.err = "MissingInputUtxo"
    /\ \E i, j \in DOMAIN last.tx.inputs :
          /\ last.tx.inputs[i].outpoint \notin DOMAIN UtxoStore
          /\ last.tx.inputs[j].outpoint \in DOMAIN UtxoStore
          /\ SigscriptValid(UtxoStore, last.tx, j)

(***************************************************************************)
(* C7  Hash stability.  The hash under which output i of T is stored, and  *)
(*     checked for prior existence, is H(encode(strip_sigs(T)) || i).      *)
(***************************************************************************)
C7_HashStability ==
    [][SpendStep =>
         LET T == last'.tx
             validity == validate_transaction(UtxoStore, T)
         IN /\ validity.err = "Ok" =>
                  \A i \in DOMAIN T.outputs : validity.provides[i] = output_hash(T, i - 1)
            /\ last'.err = "Ok" =>
                  DOMAIN UtxoStore' \ DOMAIN UtxoStore
                      = {output_hash(T, i - 1) : i \in DOMAIN T.outputs}]_vars

(***************************************************************************)
(* C8  No duplicate utxos.  If the hash under which an output of T is      *)
(*     stored is already a key of UtxoStore, validation of T, having passed*)
(*     the earlier checks, returns OutputAlreadyExists; a successful spend *)
(*     overwrites no entry that is live at the time of the call.           *)
(***************************************************************************)
\* the hash the pallet files output i (from 0) of the transaction under
StoredHash(transaction, i) == HashOfTxIndex(Encode(transaction), i)

\* no input is rejected: every live input is signed by the owner of its
\* utxo and the values of the live inputs stay within the Value range
InputsPass(store, transaction) ==
    LET live == SelectSeq(transaction.inputs,
                          LAMBDA input : input.outpoint \in DOMAIN store)
    IN /\ \A i \in DOMAIN transaction.inputs :
             transaction.inputs[i].outpoint \in DOMAIN store
                 => SigscriptValid(store, transaction, i)
       /\ SumOfInputValues(store, Transaction(live, transaction.outputs), 1) < U128Mod

\* the first output whose hash is a key of the store
FirstExisting(store, transaction) ==
    CHOOSE i \in DOMAIN transaction.outputs :
        /\ StoredHash(transaction, i - 1) \in DOMAIN store
        /\ \A j \in 1..(i - 1) : StoredHash(transaction, j - 1) \notin DOMAIN store

\* C8: a transaction one of whose outputs already is in the store is
\* rejected with OutputAlreadyExists, and a successful spend adds one new
\* entry for each output, overwriting none
C8_NoDuplicateUtxos ==
    [][SpendStep =>
         LET T == last'.tx IN
         /\ (/\ PassesChecks1to4(T)
             /\ InputsPass(UtxoStore, T)
             /\ \E i \in DOMAIN T.outputs : StoredHash(T, i - 1) \in DOMAIN UtxoStore
             /\ LET first == FirstExisting(UtxoStore, T) IN
                /\ \A j \in 1..first : T.outputs[j].value > 0
                /\ SumOfOutputValues(Transaction(T.inputs, SubSeq(T.outputs, 1, first - 1)), 1)
                       < U128Mod)
            => last'.err = "OutputAlreadyExists"
         /\ last'.err = "Ok" =>
               /\ \A i \in DOMAIN T.outputs : StoredHash(T, i - 1) \notin DOMAIN UtxoStore
               /\ Cardinality(DOMAIN UtxoStore')
                     = Cardinality(DOMAIN UtxoStore \ Outpoints(T)) + Len(T.outputs)]_vars

\* an applied transaction was submitted again while its outputs were live
C8_Witness ==
    /\ last.op = "spend"
    /\ last.err = "OutputAlreadyExists"
    /\ last.tx \in applied
    /\ \A i \in DOMAIN last.tx.outputs : StoredHash(last.tx, i - 1) \in DOMAIN UtxoStore

C10_PositiveValues ==
    \A h \in DOMAIN UtxoStore : UtxoStore[h].value > 0

\* the step is a finalization of the utxo pallet
FinalizeStep == last'.op = "on_finalize"

\* the key of the reward utxo of value r for the author of the step
RewardKey(r) ==
    HashOfUtxoHeight(TransactionOutput(r, block_author'), block_number)

(***************************************************************************)
(* C11 Reward dispersal.  A finalization with a known author A at height h *)
(*     leaves RewardTotal = 0, stores {value: r, pubkey: A} under          *)
(*     H(encode({r, A}) || h), r being RewardTotal before plus the issuance*)
(*     of h, and emits RewardsIssued{r, that key}.                         *)
(***************************************************************************)
C11_RewardDispersal ==
    [][(FinalizeStep /\ block_author' # NoKey) =>
         LET r == RewardTotal + block_issuance' IN
         /\ RewardTotal' = 0
         /\ RewardKey(r) \in DOMAIN UtxoStore'
         /\ UtxoStore'[RewardKey(r)] = TransactionOutput(r, block_author')
         /\ last'.events = <<RewardsIssued(r, RewardKey(r))>>]_vars

(***************************************************************************)
(* C12 RewardsWasted frame.  A finalization for which the block author     *)
(*     oracle returns none emits RewardsWasted, and nothing else: it leaves*)
(*     RewardTotal and every entry of UtxoStore as they were.              *)
(***************************************************************************)
C12_RewardsWastedFrame ==
    [][(FinalizeStep /\ block_author' = NoKey) =>
         /\ UtxoStore' = UtxoStore
         /\ RewardTotal' = RewardTotal
         /\ last'.events = <<RewardsWasted>>]_vars

\* a block without a known author was finalized while fees were in the pool
C12_Witness ==
    /\ last.op = "on_finalize"
    /\ block_author = NoKey
    /\ RewardTotal > 0
    /\ last.events = <<RewardsWasted>>

(***************************************************************************)
(* C13 Fee roll-over.  The reward of a finalization with a known author is *)
(*     the sum of the fees of the spends applied since the last such       *)
(*     finalization plus the issuance of the height, and RewardTotal is 0  *)
(*     afterwards.                                                         *)
(***************************************************************************)
C13_FeeRollOver ==
    [][(FinalizeStep /\ block_author' # NoKey) =>
         LET r == fees_due + block_issuance' IN
         /\ RewardTotal' = 0
         /\ last'.events = <<RewardsIssued(r, RewardKey(r))>>
         /\ RewardKey(r) \in DOMAIN UtxoStore'
         /\ UtxoStore'[RewardKey(r)].value = r]_vars

\* the step is a finalization of the difficulty pallet
DifficultyStep == last'.op = "difficulty_on_finalize"

\* the window is full and every sample of it carries the difficulty d
FullWindowAt(data, d) ==
    /\ Len(data) = DIFFICULTY_ADJUST_WINDOW
    /\ \A i \in DOMAIN data : data[i].difficulty = d

\* every sample of the window was taken `interval` after the one before
EvenlySpaced(data, interval) ==
    \A i \in 2..Len(data) : data[i].timestamp - data[i - 1].timestamp = interval

(***************************************************************************)
(* C14 Retarget idempotence in equilibrium.  On a full window whose samples*)
(*     all carry the difficulty d, MinDifficulty <= d <= MaxDifficulty, and*)
(*     whose timestamps are TargetBlockTime apart, the retarget writes     *)
(*     CurrentDifficulty = d.                                              *)
(***************************************************************************)
C14_Equilibrium ==
    [][DifficultyStep =>
         LET data == PastDifficultiesAndTimestamps'
             d    == data[1].difficulty
         IN (/\ FullWindowAt(data, d)
             /\ MinDifficulty <= d /\ d <= MaxDifficulty
             /\ EvenlySpaced(data, TargetBlockTime))
            => CurrentDifficulty' = d]_vars

(***************************************************************************)
(* C15 Clamp bound.  Every finalization writes a difficulty d' with        *)
(*     d_prev / C <= d' <= d_prev * C, up to the rounding of the integer   *)
(*     division, d_prev being CurrentDifficulty before it and C the        *)
(*     ClampFactor.                                                        *)
(***************************************************************************)
C15_ClampBound ==
    [][DifficultyStep =>
         /\ CurrentDifficulty' + 1 >= CurrentDifficulty \div T_ClampFactor
         /\ CurrentDifficulty' <= CurrentDifficulty * T_ClampFactor + 1]_vars

(***************************************************************************)
(* C16 Retarget monotonicity.  When every sample of the window carries the *)
(*     difficulty d, MinDifficulty <= d <= MaxDifficulty: if ts_delta is   *)
(*     less than W * B the new difficulty is at least d, and if ts_delta is*)
(*     greater than W * B it is at most d.                                 *)
(***************************************************************************)
C16_Monotonicity ==
    [][DifficultyStep =>
         LET data == PastDifficultiesAndTimestamps'
             d    == data[1].difficulty
             ts_delta == TsDelta(data, 2)
             adjustment_window == DIFFICULTY_ADJUST_WINDOW * TargetBlockTime
         IN (/\ \A i \in DOMAIN data : data[i].difficulty = d
             /\ MinDifficulty <= d /\ d <= MaxDifficulty)
            => /\ ts_delta < adjustment_window => CurrentDifficulty' >= d
               /\ ts_delta > adjustment_window => CurrentDifficulty' <= d]_vars

(***************************************************************************)
(* C17 Difficulty clamp scenario.  On a full window whose samples all carry*)
(*     the difficulty d and the same timestamp, the retarget writes        *)
(*     min(MaxDifficulty, d * C), for every DampFactor and ClampFactor C   *)
(*     of 2 or more.                                                       *)
(***************************************************************************)
C17_ClampScenario ==
    [][DifficultyStep =>
         LET data == PastDifficultiesAndTimestamps'
             d    == data[1].difficulty
         IN (FullWindowAt(data, d) /\ EvenlySpaced(data, 0))
            => CurrentDifficulty' = Min(MaxDifficulty, d * T_ClampFactor)]_vars

\* C17 as amended: as claimed, for DampFactor = 2 and ClampFactor = 2 and
\* MinDifficulty <= d <= MaxDifficulty
C17_ClampScenarioAmended ==
    [][DifficultyStep =>
         LET data == PastDifficultiesAndTimestamps'
             d    == data[1].difficulty
         IN (/\ FullWindowAt(data, d)
             /\ EvenlySpaced(data, 0)
             /\ MinDifficulty <= d /\ d <= MaxDifficulty
             /\ T_DampFactor = 2
             /\ T_ClampFactor = 2)
            => CurrentDifficulty' = Min(MaxDifficulty, d * T_ClampFactor)]_vars

\* a retarget on a full window of samples at 100 with one timestamp, under
\* DampFactor = 2 and ClampFactor = 2, wrote 200
C17_Witness ==
    /\ last.op = "difficulty_on_finalize"
    /\ FullWindowAt(PastDifficultiesAndTimestamps, 100)
    /\ EvenlySpaced(PastDifficultiesAndTimestamps, 0)
    /\ T_DampFactor = 2
    /\ T_ClampFactor = 2
    /\ CurrentDifficulty = 200

(***************************************************************************)
(* C18 Duplicate input.  A transaction with inputs and outputs of which two*)
(*     inputs are the same (outpoint, sigscript) pair is rejected with     *)
(*     DuplicateInput, whether or not the utxo referred to exists, and the *)
(*     state is left as it was.                                            *)
(***************************************************************************)
C18_DuplicateInput ==
    [][SpendStep =>
         LET T == last'.tx IN
         (/\ T.inputs # <<>>
          /\ T.outputs # <<>>
          /\ \E i, j \in DOMAIN T.inputs : i # j /\ T.inputs[i] = T.inputs[j])
         => /\ validate_transaction(UtxoStore, T).err = "DuplicateInput"
            /\ last'.err = "DuplicateInput"
            /\ UtxoStore' = UtxoStore
            /\ RewardTotal' = RewardTotal]_vars

\* a transaction that names a live utxo twice, with the same signature of
\* its owner, was rejected
C18_Witness ==
    /\ last.op = "spend"
    /\ last.err = "DuplicateInput"
    /\ \E i, j \in DOMAIN last.tx.inputs :
          /\ i # j
          /\ last.tx.inputs[i] = last.tx.inputs[j]
          /\ last.tx.inputs[i].outpoint \in DOMAIN UtxoStore
          /\ SigscriptValid(UtxoStore, last.tx, i)

(***************************************************************************)
(* C19 Overspend.  A transaction whose inputs all refer to live utxos and  *)
(*     pass the input checks, whose outputs are all non-zero and fresh and *)
(*     whose total output value exceeds its total input value is rejected  *)
(*     with OutputExceedsInput, and the state is left as it was.           *)
(***************************************************************************)
\* the transaction passes checks 1-4 and the input checks on live inputs
\* only, its outputs are non-zero and fresh, and its outputs pay more than
\* its inputs hold
Overspends(store, transaction) ==
    /\ PassesChecks1to4(transaction)
    /\ AllInputsLive(store, transaction)
    /\ InputsPass(store, transaction)
    /\ \A i \in DOMAIN transaction.outputs :
          /\ transaction.outputs[i].value > 0
          /\ StoredHash(transaction, i - 1) \notin DOMAIN store
    /\ SumOfOutputValues(transaction, 1) > SumOfInputValues(store, transaction, 1)

ZeroOutputs(transaction) ==
    {i \in DOMAIN transaction.outputs : transaction.outputs[i].value = 0}

\* C20 as claimed
C20_ZeroOutput ==
    [][SpendStep =>
         LET T == last'.tx IN
         (PassesChecks1to4(T) /\ ZeroOutputs(T) # {})
         => /\ validate_transaction(UtxoStore, T).err = "ZeroValueOutput"
            /\ last'.err = "ZeroValueOutput"
            /\ UtxoStore' = UtxoStore
            /\ RewardTotal' = RewardTotal]_vars

\* the outputs before output `first` pass the checks of the output loop
OutputsPassBefore(store, transaction, first) ==
    /\ \A j \in 1..(first - 1) :
          /\ transaction.outputs[j].value > 0
          /\ j < U64Mod
          /\ StoredHash(transaction, j - 1) \notin DOMAIN store
    /\ SumOfOutputValues(Transaction(transaction.inputs,
                                     SubSeq(transaction.outputs, 1, first - 1)), 1)
          < U128Mod

\* C20 as amended: as claimed, for the transactions whose live inputs pass
\* the input checks and whose outputs before the first of value 0 pass the
\* output checks
C20_ZeroOutputAmended ==
    [][SpendStep =>
         LET T == last'.tx IN
         (/\ PassesChecks1to4(T)
          /\ ZeroOutputs(T) # {}
          /\ InputsPass(UtxoStore, T)
          /\ OutputsPassBefore(UtxoStore, T,
                 CHOOSE i \in ZeroOutputs(T) : \A j \in ZeroOutputs(T) : i <= j))
         => /\ validate_transaction(UtxoStore, T).err = "ZeroValueOutput"
            /\ last'.err = "ZeroValueOutput"
            /\ UtxoStore' = UtxoStore
            /\ RewardTotal' = RewardTotal]_vars

\* a transaction with an input that is in no store and an output of value 0
\* was rejected with ZeroValueOutput
C20_Witness ==
    /\ last.op = "spend"
    /\ last.err = "ZeroValueOutput"
    /\ PassesChecks1to4(last.tx)
    /\ \E i \in DOMAIN last.tx.inputs : last.tx.inputs[i].outpoint \notin DOMAIN UtxoStore

(***************************************************************************)
(* C21 Missing input in the validator.  validate_transaction, given a      *)
(*     transaction in which it finds no other fault and of which an input  *)
(*     refers to an outpoint that is not in UtxoStore, returns the error   *)
(*     MissingInputUtxo, not an Ok descriptor, and storage is left as it   *)
(*     was.                                                                *)
(***************************************************************************)
C21_ValidatorRejectsMissing ==
    [][SpendStep =>
         LET T == last'.tx
             validity == validate_transaction(UtxoStore, T)
         IN (/\ ~AllInputsLive(UtxoStore, T)
             /\ validity.err \in {"Ok", "MissingInputUtxo"})
            => /\ validity.err = "MissingInputUtxo"
               /\ UtxoStore' = UtxoStore
               /\ RewardTotal' = RewardTotal]_vars

(***************************************************************************)
(* C22 Deterministic error attribution.  The error spend returns for an    *)
(*     invalid transaction is that of the first failing check in the order *)
(*     NoInputs, NoOutputs, DuplicateInput, DuplicateOutput, then input by *)
(*     input InvalidSignature and ValueOverflow, then output by output     *)
(*     ZeroValueOutput, OutputAlreadyExists and ValueOverflow, then        *)
(*     OutputExceedsInput, and MissingInputUtxo only when all of these     *)
(*     pass.                                                               *)
(***************************************************************************)
\* the value input i adds to total_input: that of the utxo it refers to,
\* nothing when there is none
LiveValue(store, transaction, i) ==
    IF transaction.inputs[i].outpoint \in DOMAIN store
    THEN store[transaction.inputs[i].outpoint].value
    ELSE 0

RECURSIVE TotalInputUpTo(_, _, _)
\* total_input after the first n inputs
TotalInputUpTo(store, transaction, n) ==
    IF n = 0 THEN 0
    ELSE LiveValue(store, transaction, n) + TotalInputUpTo(store, transaction, n - 1)

RECURSIVE TotalOutputUpTo(_, _)
\* total_output after the first n outputs
TotalOutputUpTo(transaction, n) ==
    IF n = 0 THEN 0
    ELSE transaction.outputs[n].value + TotalOutputUpTo(transaction, n - 1)

\* the error of the check of input i, "Ok" when it passes
InputCheck(store, transaction, i) ==
    IF transaction.inputs[i].outpoint \notin DOMAIN store THEN "Ok"
    ELSE IF ~SigscriptValid(store, transaction, i) THEN "InvalidSignature"
    ELSE IF TotalInputUpTo(store, transaction, i) >= U128Mod THEN "ValueOverflow"
    ELSE "Ok"

\* the error of the check of output i, "Ok" when it passes
OutputCheck(store, transaction, i) ==
    IF transaction.outputs[i].value = 0 THEN "ZeroValueOutput"
    ELSE IF StoredHash(transaction, i - 1) \in DOMAIN store THEN "OutputAlreadyExists"
    ELSE IF TotalOutputUpTo(transaction, i) >= U128Mod THEN "ValueOverflow"
    ELSE "Ok"

\* the least member of a set of positions
FirstOf(positions) == CHOOSE i \in positions : \A j \in positions : i <= j

\* the error of the first failing check in the order of the claim, "Ok"
\* when every check passes
FirstFailingCheck(store, transaction) ==
    LET badInputs  == {i \in DOMAIN transaction.inputs :
                          InputCheck(store, transaction, i) # "Ok"}
        badOutputs == {i \in DOMAIN transaction.outputs :
                          OutputCheck(store, transaction, i) # "Ok"}
    IN
    IF transaction.inputs = <<>> THEN "NoInputs"
    ELSE IF transaction.outputs = <<>> THEN "NoOutputs"
    ELSE IF \E i, j \in DOMAIN transaction.inputs :
               i # j /\ transaction.inputs[i] = transaction.inputs[j]
    THEN "DuplicateInput"
    ELSE IF \E i, j \in DOMAIN transaction.outputs :
               i # j /\ transaction.outputs[i] = transaction.outputs[j]
    THEN "DuplicateOutput"
    ELSE IF badInputs # {} THEN InputCheck(store, transaction, FirstOf(badInputs))
    ELSE IF badOutputs # {} THEN OutputCheck(store, transaction, FirstOf(badOutputs))
    ELSE IF /\ AllInputsLive(store, transaction)
            /\ TotalInputUpTo(store, transaction, Len(transaction.inputs))
                  < TotalOutputUpTo(transaction, Len(transaction.outputs))
    THEN "OutputExceedsInput"
    ELSE IF ~AllInputsLive(store, transaction) THEN "MissingInputUtxo"
    ELSE "Ok"

C23_WindowSize ==
    /\ Len(PastDifficultiesAndTimestamps) <= DIFFICULTY_ADJUST_WINDOW
    /\ Len(PastDifficultiesAndTimestamps) = Min(blocks, DIFFICULTY_ADJUST_WINDOW)
    /\ blocks = 0 => PastDifficultiesAndTimestamps = <<>>

\* one block more than the window holds was finalized
C23_Witness ==
    /\ last.op = "difficulty_on_finalize"
    /\ blocks = DIFFICULTY_ADJUST_WINDOW + 1
    /\ Len(PastDifficultiesAndTimestamps) = DIFFICULTY_ADJUST_WINDOW

(***************************************************************************)
(* C24 Sample window FIFO order.  A finalization puts at the end of the    *)
(*     window the sample of CurrentDifficulty as it was before the         *)
(*     retarget and the clock reading; a window that was not full keeps    *)
(*     every sample at its index, a full one drops the sample at index 0   *)
(*     and moves every other sample down by one.                           *)
(***************************************************************************)
C24_WindowFifo ==
    [][DifficultyStep =>
         LET old == PastDifficultiesAndTimestamps
             new == PastDifficultiesAndTimestamps'
         IN /\ new # <<>>
            /\ new[Len(new)].difficulty = CurrentDifficulty
            /\ new[Len(new)].timestamp \in {PrevTime + TargetBlockTime} \cup OffbeatTimes
            /\ IF Len(old) < DIFFICULTY_ADJUST_WINDOW
               THEN /\ Len(new) = Len(old) + 1
                    /\ \A i \in 1..Len(old) : new[i] = old[i]
               ELSE /\ Len(new) = DIFFICULTY_ADJUST_WINDOW
                    /\ \A i \in 2..Len(old) : new[i - 1] = old[i]]_vars

\* a finalization on a full window dropped the oldest sample: the samples
\* left are in the order of their arrival and the one stamped first is gone
C24_Witness ==
    /\ last.op = "difficulty_on_finalize"
    /\ blocks > DIFFICULTY_ADJUST_WINDOW
    /\ Len(PastDifficultiesAndTimestamps) = DIFFICULTY_ADJUST_WINDOW
    /\ PastDifficultiesAndTimestamps[1].timestamp = StartTime + TargetBlockTime
    /\ \A i \in 2..DIFFICULTY_ADJUST_WINDOW :
          PastDifficultiesAndTimestamps[i].timestamp
             = PastDifficultiesAndTimestamps[i - 1].timestamp + TargetBlockTime

(***************************************************************************)
(* C25 Saturating reward.  A finalization with a known author computes the *)
(*     reward as RewardTotal plus the issuance of the height with          *)
(*     saturating addition: when the exact sum is beyond the largest Value *)
(*     the reward utxo holds the largest Value, and the finalization       *)
(*     completes, neither aborting nor wrapping around.                    *)
(***************************************************************************)
C25_SaturatingReward ==
    [][(FinalizeStep /\ block_author' # NoKey) =>
         LET r == Min(U128Mod - 1, RewardTotal + block_issuance') IN
         /\ last'.err = "Ok"
         /\ RewardTotal' = 0
         /\ RewardKey(r) \in DOMAIN UtxoStore'
         /\ UtxoStore'[RewardKey(r)].value = r
         /\ last'.events = <<RewardsIssued(r, RewardKey(r))>>]_vars

(***************************************************************************)
(* C26 Timestamp regression tolerance.  In the retarget a sample stamped   *)
(*     before its predecessor adds 0 to ts_delta, ts_delta is the sum of   *)
(*     the non-negative differences of consecutive timestamps of the       *)
(*     window, and a ts_delta of 0 is replaced by 1 before damping.        *)
(***************************************************************************)
RECURSIVE ForwardTime(_, _)
\* the time the clock went forward over the first n samples: the sum of the
\* differences of consecutive timestamps that are not negative
ForwardTime(data, n) ==
    IF n < 2 THEN 0
    ELSE Max(0, data[n].timestamp - data[n - 1].timestamp) + ForwardTime(data, n - 1)

\* the difficulty the retarget writes for a window, given the ts_delta it
\* damps
RetargetFrom(data, ts_delta) ==
    LET diff_sum == Max(MinDifficulty, DiffSum(data, 1))
        adjustment_window == DIFFICULTY_ADJUST_WINDOW * T_TargetBlockTime
        adj_ts == clamp(damp(ts_delta, adjustment_window, T_DampFactor),
                        adjustment_window, T_ClampFactor)
    IN Min(MaxDifficulty, Max(MinDifficulty, (diff_sum * T_TargetBlockTime) \div adj_ts))

C26_RegressionTolerance ==
    [][DifficultyStep =>
         LET data == PastDifficultiesAndTimestamps'
             forward == ForwardTime(data, Len(data))
             expected == IF forward = 0 THEN 1 ELSE forward
         IN /\ \A i \in 2..Len(data) :
                  data[i].timestamp < data[i - 1].timestamp
                     => TsDelta(data, i) = TsDelta(data, i + 1)
            /\ ts_delta_of(data) = expected
            /\ CurrentDifficulty' = RetargetFrom(data, expected)]_vars

\* the second block was stamped before the first: the clock never went
\* forward over the window and the retarget damped a ts_delta of 1
C26_Witness ==
    /\ last.op = "difficulty_on_finalize"
    /\ Len(PastDifficultiesAndTimestamps) = 2
    /\ PastDifficultiesAndTimestamps[2].timestamp < PastDifficultiesAndTimestamps[1].timestamp
    /\ ts_delta_of(PastDifficultiesAndTimestamps) = 1

(***************************************************************************)
(* C27 Retarget never faults.  Under every runtime with TargetBlockTime    *)
(*     >= 1, DampFactor >= 2, ClampFactor >= 2 and MinDifficulty <=        *)
(*     MaxDifficulty, on every window, the divisor adj_ts is >= 1 and no   *)
(*     product or sum of the retarget is beyond the width of its integer   *)
(*     type, so that every finalization writes CurrentDifficulty and emits *)
(*     DifficultyUpdated.                                                  *)
(***************************************************************************)
C27_RetargetNeverFaults ==
    [][(/\ DifficultyStep
        /\ T_TargetBlockTime >= 1
        /\ T_DampFactor >= 2
        /\ T_ClampFactor >= 2
        /\ MinDifficulty <= MaxDifficulty)
       => /\ last'.err = "Ok"
          /\ ~u128_overflows(PastDifficultiesAndTimestamps')
          /\ ~u256_panics(PastDifficultiesAndTimestamps')
          /\ adj_ts_of(PastDifficultiesAndTimestamps') >= 1
          /\ last'.events = <<DifficultyUpdated(CurrentDifficulty')>>]_vars

RECURSIVE SumOfUtxos(_, _)
\* the sum of the values of the utxos stored under the keys of a set
SumOfUtxos(store, keys) ==
    IF keys = {} THEN 0
    ELSE LET key == CHOOSE h \in keys : TRUE
         IN store[key].value + SumOfUtxos(store, keys \ {key})

(***************************************************************************)
(* C29 No utxo counted twice.  A transaction that spend accepts has no two *)
(*     inputs with the same outpoint, whatever their sigscripts, so that   *)
(*     the value of a live utxo is added to total_input at most once.      *)
(***************************************************************************)
C29_NoDoubleCount ==
    [][SpendSucceeds =>
         LET T == last'.tx IN
         /\ \A i, j \in DOMAIN T.inputs :
               T.inputs[i].outpoint = T.inputs[j].outpoint => i = j
         /\ TotalInputUpTo(UtxoStore, T, Len(T.inputs))
               = SumOfUtxos(UtxoStore, Outpoints(T))]_vars

(***************************************************************************)
(* C28 No value creation by spending.  The total supply is the sum of the  *)
(*     values of the live utxos plus RewardTotal.  A spend that succeeds   *)
(*     never increases it; it grows only at a finalization with a known    *)
(*     author, and then by exactly the issuance of the height.             *)
(***************************************************************************)
TotalSupply(store, reward_total) ==
    SumOfUtxos(store, DOMAIN store) + reward_total

C28_NoValueCreation ==
    [][LET before == TotalSupply(UtxoStore, RewardTotal)
           after  == TotalSupply(UtxoStore', RewardTotal')
       IN /\ SpendSucceeds => after <= before
          /\ (FinalizeStep /\ block_author' # NoKey) => after = before + block_issuance'
          /\ after > before => (FinalizeStep /\ block_author' # NoKey)]_vars

====
